---------------------------- MODULE Spec2Model ----------------------------
(***************************************************************************)
(* Model of the evolutionary core of etuioan/evoli_ki                      *)
(* (src/Evoli_Kern.rs) and of the two background threads and the           *)
(* foreground reads of src/main.rs that share it behind one Mutex.         *)
(*                                                                         *)
(* Text is modelled as a sequence of lines, a line as a record             *)
(* [kind, n].  A directory is a set of file records with distinct names.   *)
(* Storage sizes are counted in units of 2^30 bytes, so that the 1 TiB     *)
(* capacity of the source (2^40 bytes) is 1024 and fits TLC's integers;    *)
(* the two thresholds are computed from it with the source's expressions.  *)
(***************************************************************************)
EXTENDS Integers, Sequences, FiniteSets, TLC

(***************************************************************************)
(* Bounds of the model.                                                    *)
(***************************************************************************)
\* evolution-timer firings explored when every outcome is open
MaxCycles == 2
\* evolution-timer firings explored in the long, quiet run
LongRunCycles == 15
\* evolution-timer firings explored while the strategy registry fills
RegistryCycles == 9
\* learning-timer firings explored
MaxNetCycles == 1
\* I/O operations that may fail in one run
MaxFaults == 1
\* distinct wall-clock readings (file names, modification times, comments)
MaxStamp == 1
\* longest genome, in lines
MaxGenomeLines == 5
\* files present in the two managed directories at start-up
MaxStartFiles == 3

(***************************************************************************)
(* Program constants.                                                      *)
(***************************************************************************)
\* pub const MAX_STORAGE_BYTES: u64 = 1_099_511_627_776, in units of 2^30
MAX_STORAGE_BYTES == 1024
\* if self.evolution_backups.len() > 10
MaxBackups == 10
\* self.mutation_strategies.len() < 10
MaxStrategies == 10

\* a trigger threshold set to the target
HighWater_AsTarget == MAX_STORAGE_BYTES \div 2

\* manage_storage: MAX_STORAGE_BYTES * 8 / 10
HighWater == (MAX_STORAGE_BYTES * 8) \div 10
\* a target set to the trigger threshold
TargetSize_AsHighWater == (MAX_STORAGE_BYTES * 8) \div 10

\* clean_directory: let target_size = MAX_STORAGE_BYTES / 2
TargetSize == MAX_STORAGE_BYTES \div 2

\* module_types of try_create_new_module
ModuleTypes == {"data_processor", "network_interface", "learning_system", "code_analyzer"}

Stamps == 1..MaxStamp

(***************************************************************************)
(* Text.                                                                   *)
(***************************************************************************)
Line(k, i) == [kind |-> k, n |-> i]

\* the source file the core loads as its first genome: a body and the
\* closing braces that end it
InitialGenome == <<Line("code", 0), Line("brace", 0), Line("brace", 0)>>

\* str::replace(from, to) on lines: every occurrence of the line `from` is
\* replaced by the lines `to`
RECURSIVE Replace(_, _, _)
Replace(code, from, to) ==
    IF code = <<>> THEN <<>>
    ELSE (IF Head(code) = from THEN to ELSE <<Head(code)>>)
         \o Replace(Tail(code), from, to)

\* BasicMutationStrategy::mutate as a function of what it draws: low is
\* rng.gen::<f64>() < 0.3, target the line drawn, arm the mutation kind drawn,
\* stamp the reading of chrono::Local::now(), which differs from cycle to
\* cycle (the cycles are at least ten seconds apart)
BasicMutate(code, low, target, arm, stamp) ==
    IF low /\ Len(code) > 0 /\ arm = 0
    THEN Replace(code, code[target], <<Line("comment", stamp), code[target]>>)
    ELSE code

\* AdvancedMutationStrategy::mutate
AdvancedMutate(code) == code

\* SelfDevelopedMutationStrategy::mutate
SelfDevelopedMutate(code) == code

\* a name that leaves out the generation
StrategyName_Unnumbered(k, g) == [kind |-> k, n |-> 0]

\* the strategy names of the registry
StrategyName(k, g) == [kind |-> k, n |-> g]

\* strategy.mutate(code) by dynamic dispatch
Mutate(strategy, code, low, target, arm, stamp) ==
    CASE strategy.kind = "BasicMutation" -> BasicMutate(code, low, target, arm, stamp)
      [] strategy.kind = "AdvancedMutation" -> AdvancedMutate(code)
      [] OTHER -> SelfDevelopedMutate(code)

\* enhanced_code.rfind('}').unwrap_or(enhanced_code.len()), as a line index:
\* the last line holding a closing brace, or one past the end
RECURSIVE RFindBrace(_, _)
RFindBrace(code, i) ==
    IF i = 0 THEN Len(code) + 1
    ELSE IF code[i].kind \in {"brace", "learned"} THEN i
    ELSE RFindBrace(code, i - 1)

\* enhanced_code.insert_str(insert_point, ...)
InsertAt(code, i, lines) ==
    SubSeq(code, 1, i - 1) \o lines \o SubSeq(code, i, Len(code))

\* the splice of integrate_knowledge_into_code for knowledge file f
Splice(code, f) ==
    IF f.fn
    THEN InsertAt(code, RFindBrace(code, Len(code)), <<Line("learned", f.name)>>)
    ELSE code

\* format!("evoli_module_{}", module_type) and the template filled with it
ModuleName(t) == <<"evoli_module", t>>
ModuleCode(t) == [template |-> "Module", type |-> t, name |-> ModuleName(t)]

(***************************************************************************)
(* Files and directories.                                                  *)
(***************************************************************************)
File(nm, sz, mt, hasFn) == [name |-> nm, size |-> sz, mtime |-> mt, fn |-> hasFn]

RECURSIVE SumSizes(_)
SumSizes(files) ==
    IF files = {} THEN 0
    ELSE LET f == CHOOSE x \in files : TRUE
         IN f.size + SumSizes(files \ {f})

\* fs::write / File::create of a name in a directory: an existing file of
\* that name is overwritten
WriteFile(dir, f) == {x \in dir : x.name # f.name} \cup {f}

\* a running total that is never reduced
SaturatingSub_Keeps(a, b) == a

\* u64::saturating_sub
SaturatingSub(a, b) == IF a >= b THEN a - b ELSE 0


\* HashMap::insert / a file written under a name derived from the key
EmptyMap == [x \in {} |-> x]
Put(m, k, v) == [x \in DOMAIN m \cup {k} |-> IF x = k THEN v ELSE m[x]]

(***************************************************************************)
(* State.                                                                  *)
(***************************************************************************)
VARIABLES
    scenario,            \* which environment the run explores (see Init)
    kern,                \* Arc<Mutex<Option<EnhancedEvoliKern>>>: is it Some
    lockHolder,          \* the thread holding the Mutex, or "none"
    evoPc, netPc, fgPc,  \* where each thread stands
    evoResult,           \* what run_evolution_cycle returned to its thread
    cycles, netCycles,   \* timer firings so far
    faults,              \* I/O failures so far
    primary_genome, module_genomes, generation, disk_usage,
    evolution_backups, mutation_strategies,
    knowledge_dir, internet_cache,
    backup_files, staging_file, module_files,
    cleanDir, cleanQueue, cleanCurrent,   \* locals of clean_directory
    cyc,                 \* history of the evolution cycle in progress
    gov                  \* history of the governance pass in progress

threadVars == <<lockHolder, evoPc, netPc, fgPc, evoResult, cycles, netCycles>>
coreVars == <<primary_genome, module_genomes, generation, disk_usage,
              evolution_backups, mutation_strategies>>
dirVars == <<knowledge_dir, internet_cache>>
fileVars == <<backup_files, staging_file, module_files>>
cleanVars == <<cleanDir, cleanQueue, cleanCurrent>>
vars == <<scenario, kern, threadVars, faults, coreVars, dirVars, fileVars,
          cleanVars, cyc, gov>>

NoText == <<>>

\* nothing recorded yet about the cycle / the governance pass
NoCycle == [gen0 |-> 0, genome0 |-> NoText, backups0 |-> <<>>, staging0 |-> NoText,
            strategies0 |-> <<>>, modules0 |-> <<>>, mfiles0 |-> <<>>, usage0 |-> 0,
            cache0 |-> {}, knowledge0 |-> {},
            candidate |-> NoText, staged |-> FALSE, compile |-> "none",
            retrieval |-> "none", synthesis |-> FALSE, module |-> "none",
            moduleName |-> <<>>, abortedAt |-> "none"]
NoGov == [pre |-> 0, triggered |-> FALSE, mid |-> 0, knowCleaned |-> FALSE,
          removed |-> <<>>, kept |-> {}, failed |-> {}, error |-> "none"]

(***************************************************************************)
(* The environments explored, all from a freshly constructed program.      *)
(*   "threads":  a connected or an absent core; both timers and the        *)
(*               foreground run; retrieval may succeed; the mutation       *)
(*               draws no change.                                          *)
(*   "pipeline": the evolution timer alone, every draw and every compiler  *)
(*               outcome open; the network is down; the knowledge store    *)
(*               may hold a file an earlier run learned.                   *)
(*   "longrun":  the evolution timer alone over many cycles in which       *)
(*               retrieval fails and the mutation draws no change.         *)
(*   "storage":  one evolution cycle on directories that hold files at     *)
(*               start-up.                                                 *)
(*   "registry": the evolution timer alone over the cycles it takes to     *)
(*               fill the strategy registry; develop_new_strategies may    *)
(*               draw below 0.05 in any of them, the mutation draws no     *)
(*               change.                                                   *)
(*   "scheduling": a connected or an absent core; both timers and the      *)
(*               foreground run; retrieval fails and the mutation draws    *)
(*               no change.  With the core absent nothing can grow, and    *)
(*               the timers fire without end.                              *)
(* I/O operations may fail in every one of them.                           *)
(***************************************************************************)
Scenarios == {"threads", "pipeline", "longrun", "storage", "registry", "scheduling"}

CycleLimit ==
    CASE scenario \in {"threads", "pipeline", "scheduling"} -> MaxCycles
      [] scenario = "longrun" -> LongRunCycles
      [] scenario = "registry" -> RegistryCycles
      [] OTHER -> 1

\* the learning timer and the foreground run
Concurrent == scenario \in {"threads", "scheduling"}

\* firings of the timers are counted, to stop them at the limit, wherever a
\* cycle body can run
Counted == kern \/ scenario # "scheduling"

\* the content retriever may deliver a body
OpenNet == scenario = "threads"

\* the random draws of mutate are open
OpenDraws == scenario = "pipeline"

\* the toolchain may accept a candidate
Open == scenario = "pipeline"

\* develop_new_strategies may draw below 0.05
OpenDevelop == scenario \in {"pipeline", "registry"}

\* how many I/O operations may fail in a run; one where files are found at
\* start-up
FaultLimit == IF scenario = "storage" THEN 1 ELSE MaxFaults

\* one more I/O operation may fail
MayFail == faults < FaultLimit

\* sizes and modification times of the files found at start-up
StartSizes == {307, 308, 512}
StartTimes == 1..3

\* the files found at start-up, k of them, named 1..k; names are given in
\* the order (directory, time, size), which leaves out only renamings
StartFileSets ==
    UNION { { s \in [1..k -> [dir : {"cache", "knowledge"}, size : StartSizes,
                              mtime : StartTimes, fn : {FALSE}]] :
                \A i \in 1..(k - 1) :
                    \/ s[i].dir = "cache" /\ s[i + 1].dir = "knowledge"
                    \/ /\ s[i].dir = s[i + 1].dir
                       /\ \/ s[i].mtime < s[i + 1].mtime
                          \/ s[i].mtime = s[i + 1].mtime /\ s[i].size <= s[i + 1].size }
            : k \in 0..MaxStartFiles }

\* a knowledge file an earlier run of the program stored, holding a function
LearnedEarlier == [dir |-> "knowledge", size |-> 1, mtime |-> 1, fn |-> TRUE]

\* what fs::create_dir_all finds in the two directories
StartDirs ==
    CASE scenario = "storage" -> StartFileSets
      [] scenario = "pipeline" -> {<<>>, <<LearnedEarlier>>}
      [] OTHER -> {<<>>}

DirOf(s, d) == { File(i, s[i].size, s[i].mtime, s[i].fn) : i \in {j \in DOMAIN s : s[j].dir = d} }

\* EnhancedEvoliKern::new and EnhancedEvoliKI::new / verbinde_mit_kern
Init ==
    /\ scenario \in Scenarios
    /\ kern \in (IF Concurrent THEN BOOLEAN ELSE {TRUE})
    /\ lockHolder = "none"
    /\ evoPc = "sleep" /\ netPc = "sleep" /\ fgPc = "idle"
    /\ evoResult = "none"
    /\ cycles = 0 /\ netCycles = 0 /\ faults = 0
    /\ primary_genome = InitialGenome
    /\ module_genomes = EmptyMap
    /\ generation = 0
    /\ disk_usage = 0
    /\ evolution_backups = <<>>
    /\ mutation_strategies = <<StrategyName("BasicMutation", 0),
                               StrategyName("AdvancedMutation", 0)>>
    /\ \E s \in StartDirs :
          /\ internet_cache = DirOf(s, "cache")
          /\ knowledge_dir = DirOf(s, "knowledge")
    /\ backup_files = EmptyMap
    /\ staging_file = NoText
    /\ module_files = EmptyMap
    /\ cleanDir = "none" /\ cleanQueue = <<>> /\ cleanCurrent = 0
    /\ cyc = NoCycle
    /\ gov = NoGov

(***************************************************************************)
(* The evolution thread (start_evolution_thread) and the steps of          *)
(* run_evolution_cycle.                                                    *)
(***************************************************************************)
\* an error that is dropped: the cycle carries on to its last statement
Abort_CarriesOn(step) ==
    /\ evoPc' = "incr"
    /\ evoResult' = evoResult
    /\ cyc' = [cyc EXCEPT !.abortedAt = step]

\* a step of run_evolution_cycle returned Err: `?` returns it to the thread
Abort(step) ==
    /\ evoPc' = "unlock"
    /\ evoResult' = "err"
    /\ cyc' = [cyc EXCEPT !.abortedAt = step]

\* thread::sleep(Duration::from_secs(10)) returns
EvoWake ==
    /\ evoPc = "sleep"
    /\ cycles < CycleLimit
    /\ evoPc' = "lock"
    /\ cycles' = IF Counted THEN cycles + 1 ELSE cycles
    /\ UNCHANGED <<scenario, kern, lockHolder, netPc, fgPc, evoResult, netCycles,
                   faults, coreVars, dirVars, fileVars, cleanVars, cyc, gov>>

\* a lock that is handed out while another thread holds it
LockFree_Always == TRUE

\* Mutex::lock returns only when no thread holds the guard
LockFree == lockHolder = "none"

\* kern_arc.lock().unwrap() and `if let Some(ref mut kern)`
EvoAcquire ==
    /\ evoPc = "lock"
    /\ LockFree
    /\ lockHolder' = "evo"
    /\ IF kern
       THEN /\ evoPc' = "backup"
            /\ evoResult' = "none"
            /\ cyc' = [NoCycle EXCEPT !.gen0 = generation, !.genome0 = primary_genome,
                                      !.backups0 = evolution_backups,
                                      !.staging0 = staging_file,
                                      !.strategies0 = mutation_strategies,
                                      !.modules0 = module_genomes,
                                      !.mfiles0 = module_files,
                                      !.usage0 = disk_usage,
                                      !.cache0 = internet_cache,
                                      !.knowledge0 = knowledge_dir]
       ELSE /\ evoPc' = "unlock"
            /\ evoResult' = "skipped"
            /\ cyc' = cyc
    /\ UNCHANGED <<scenario, kern, netPc, fgPc, cycles, netCycles, faults,
                   coreVars, dirVars, fileVars, cleanVars, gov>>

\* a backup tagged with the generation the cycle is about to reach
BackupEntry_NextGen(gen, genome) == <<gen + 1, genome>>

\* a backup that records the generation without the text
BackupEntry_NoSnapshot(gen, genome) == <<gen, NoText>>

\* (self.generation, self.primary_genome.clone())
BackupEntry(gen, genome) == <<gen, genome>>

\* a backup list that is never trimmed
PushBackup_NoTrim(backups, gen, genome) == Append(backups, <<gen, genome>>)

\* a backup list trimmed at the wrong end: pop() for remove(0)
PushBackup_DropNewest(backups, gen, genome) ==
    LET pushed == Append(backups, <<gen, genome>>)
    IN IF Len(pushed) > MaxBackups THEN SubSeq(pushed, 1, MaxBackups) ELSE pushed

\* the evolution_backups part of create_backup: push, then remove(0) when
\* the list has grown past 10
PushBackup(backups, gen, genome) ==
    LET pushed == Append(backups, BackupEntry(gen, genome))
    IN IF Len(pushed) > MaxBackups THEN Tail(pushed) ELSE pushed

\* a create_backup that writes the file first and touches the list only when
\* the write went through
CreateBackup_WriteFirst ==
    /\ evoPc = "backup"
    /\ \/ /\ backup_files' = Put(backup_files, generation, primary_genome)
          /\ evolution_backups' = PushBackup(evolution_backups, generation, primary_genome)
          /\ evoPc' = "analyze"
          /\ UNCHANGED <<faults, evoResult, cyc>>
       \/ /\ MayFail
          /\ faults' = faults + 1
          /\ Abort("create_backup")
          /\ UNCHANGED <<backup_files, evolution_backups>>
    /\ UNCHANGED <<scenario, kern, lockHolder, netPc, fgPc, cycles, netCycles,
                   primary_genome, module_genomes, generation, disk_usage,
                   mutation_strategies, dirVars, staging_file, module_files,
                   cleanVars, gov>>

\* create_backup
CreateBackup ==
    /\ evoPc = "backup"
    /\ evolution_backups' = PushBackup(evolution_backups, generation, primary_genome)
    /\ \/ /\ backup_files' = Put(backup_files, generation, primary_genome)
          /\ evoPc' = "analyze"
          /\ UNCHANGED <<faults, evoResult, cyc>>
       \/ /\ MayFail
          /\ faults' = faults + 1
          /\ Abort("create_backup")
          /\ UNCHANGED backup_files
    /\ UNCHANGED <<scenario, kern, lockHolder, netPc, fgPc, cycles, netCycles,
                   primary_genome, module_genomes, generation, disk_usage,
                   mutation_strategies, dirVars, staging_file, module_files,
                   cleanVars, gov>>

\* calculate_disk_usage, when every read_dir and metadata call succeeds
DiskUsage == SumSizes(knowledge_dir) + SumSizes(internet_cache)

\* analyze_environment
AnalyzeEnvironment ==
    /\ evoPc = "analyze"
    /\ \/ /\ disk_usage' = DiskUsage
          /\ evoPc' = "learn"
          /\ UNCHANGED <<faults, evoResult, cyc>>
       \/ /\ MayFail
          /\ faults' = faults + 1
          /\ Abort("analyze_environment")
          /\ UNCHANGED disk_usage
    /\ UNCHANGED <<scenario, kern, lockHolder, netPc, fgPc, cycles, netCycles,
                   primary_genome, module_genomes, generation, evolution_backups,
                   mutation_strategies, dirVars, fileVars, cleanVars, gov>>

(***************************************************************************)
(* learn_from_internet and extract_knowledge_from_content.                 *)
(***************************************************************************)
\* what a retrieved body may hold: text without a ```rust block, a block
\* without a function, a block with a function
ContentKinds == {"text", "code", "fn"}
ContentSize(c) == 1

\* names of the files written at wall-clock reading t:
\* evoli_cache_<t>.html and evoli_knowledge_<t>.rs
StampedName(t) == 100 + t

\* learn_from_internet returning `result` after the retriever's `outcome`.
\* A network error, a non-success status and an unreadable body ("failed")
\* are all logged and leave every file alone.
LearnFromInternet(result, outcome) ==
    \/ /\ outcome = "failed"
       /\ result = "ok"
       /\ UNCHANGED <<faults, dirVars>>
    \/ /\ outcome = "received"
       /\ OpenNet
       /\ \E content \in ContentKinds, t \in Stamps :
            LET cached == WriteFile(internet_cache,
                                    File(StampedName(t), ContentSize(content), t, FALSE))
                extracted == content \in {"code", "fn"}
            IN \/ \* fs::write(&cache_path, &content)? fails
                  /\ MayFail /\ faults' = faults + 1
                  /\ result = "err"
                  /\ UNCHANGED dirVars
               \/ \* no code example found, or the examples are stored
                  /\ result = "ok"
                  /\ internet_cache' = cached
                  /\ knowledge_dir' =
                        IF extracted
                        THEN WriteFile(knowledge_dir,
                                       File(StampedName(t), 1, t, content = "fn"))
                        ELSE knowledge_dir
                  /\ UNCHANGED faults
               \/ \* File::create(knowledge_path)? fails
                  /\ extracted
                  /\ MayFail /\ faults' = faults + 1
                  /\ result = "err"
                  /\ internet_cache' = cached
                  /\ UNCHANGED knowledge_dir
               \/ \* writeln!(file, ...)? fails on the created file
                  /\ extracted
                  /\ MayFail /\ faults' = faults + 1
                  /\ result = "err"
                  /\ internet_cache' = cached
                  /\ knowledge_dir' = WriteFile(knowledge_dir,
                                                File(StampedName(t), 0, t, FALSE))

\* a cycle that gives up when the retriever fails
EvoLearn_FailureAborts ==
    /\ evoPc = "learn"
    /\ \E result \in {"ok", "err"}, outcome \in {"failed", "received"} :
          LET passed == result = "ok" /\ outcome = "received"
          IN /\ LearnFromInternet(result, outcome)
             /\ evoPc' = IF passed THEN "evolve" ELSE "unlock"
             /\ evoResult' = IF passed THEN evoResult ELSE "err"
             /\ cyc' = [cyc EXCEPT !.retrieval = outcome,
                                   !.abortedAt = IF passed THEN @
                                                 ELSE "learn_from_internet"]
    /\ UNCHANGED <<scenario, kern, lockHolder, netPc, fgPc, cycles, netCycles,
                   coreVars, fileVars, cleanVars, gov>>

\* step 2 of run_evolution_cycle: internet_enabled is set true by new() and
\* never changed, so the step always runs
EvoLearn ==
    /\ evoPc = "learn"
    /\ \E result \in {"ok", "err"}, outcome \in {"failed", "received"} :
          /\ LearnFromInternet(result, outcome)
          /\ evoPc' = IF result = "ok" THEN "evolve" ELSE "unlock"
          /\ evoResult' = IF result = "ok" THEN evoResult ELSE "err"
          /\ cyc' = [cyc EXCEPT !.retrieval = outcome,
                                !.abortedAt = IF result = "ok" THEN @
                                              ELSE "learn_from_internet"]
    /\ UNCHANGED <<scenario, kern, lockHolder, netPc, fgPc, cycles, netCycles,
                   coreVars, fileVars, cleanVars, gov>>

(***************************************************************************)
(* evolve, integrate_knowledge_into_code, try_create_new_module.           *)
(***************************************************************************)
\* a pipeline that validates every candidate, changed or not
GenomeChanged_Always(mutated_genome, primary) == TRUE

\* if mutated_genome != self.primary_genome
GenomeChanged(mutated_genome, primary) == mutated_genome # primary

\* evolve up to the comparison of the mutated genome with the primary one,
\* and the write of the staging file
EvolveMutate ==
    /\ evoPc = "evolve"
    /\ \E i \in 1..Len(mutation_strategies), low \in (IF OpenDraws THEN BOOLEAN ELSE {FALSE}) :
       \* target_line and the mutation kind are drawn only below 0.3
       \E target \in (IF low THEN 1..Len(primary_genome) ELSE {1}),
          arm \in (IF low THEN 0..4 ELSE {0}) :
         LET mutated_genome == Mutate(mutation_strategies[i], primary_genome,
                                      low, target, arm, cycles)
         IN /\ Len(mutated_genome) <= MaxGenomeLines
            /\ IF GenomeChanged(mutated_genome, primary_genome)
               THEN \/ /\ staging_file' = mutated_genome
                       /\ evoPc' = "compile"
                       /\ cyc' = [cyc EXCEPT !.candidate = mutated_genome, !.staged = TRUE]
                       /\ UNCHANGED <<faults, evoResult>>
                    \/ /\ MayFail
                       /\ faults' = faults + 1
                       /\ evoPc' = "unlock"
                       /\ evoResult' = "err"
                       /\ cyc' = [cyc EXCEPT !.candidate = mutated_genome,
                                             !.abortedAt = "evolve"]
                       /\ UNCHANGED staging_file
               ELSE /\ evoPc' = "develop"
                    /\ cyc' = [cyc EXCEPT !.candidate = mutated_genome]
                    /\ UNCHANGED <<staging_file, faults, evoResult>>
    /\ UNCHANGED <<scenario, kern, lockHolder, netPc, fgPc, cycles, netCycles,
                   coreVars, dirVars, backup_files, module_files, cleanVars, gov>>

\* what Command::output can give: Err(e), or Ok(output) with a failure or a
\* success status
CompileOutcomes ==
    {"spawn_failed", "failed"} \cup (IF Open THEN {"ok"} ELSE {})

\* a match that takes every Ok(output) for a success
CompileAccepted_AnyStatus(outcome) == outcome # "spawn_failed"

\* Ok(output) with output.status.success()
CompileAccepted(outcome) == outcome = "ok"

\* a compilation failure returned as an error of evolve
EvolveCompile_FailAborts ==
    /\ evoPc = "compile"
    /\ \E outcome \in CompileOutcomes :
          IF outcome = "failed"
          THEN /\ evoPc' = "unlock"
               /\ evoResult' = "err"
               /\ cyc' = [cyc EXCEPT !.compile = outcome, !.abortedAt = "evolve"]
          ELSE /\ cyc' = [cyc EXCEPT !.compile = outcome]
               /\ evoPc' = IF CompileAccepted(outcome) THEN "adopt" ELSE "develop"
               /\ UNCHANGED evoResult
    /\ UNCHANGED <<scenario, kern, lockHolder, netPc, fgPc, cycles,
                   netCycles, faults, coreVars, dirVars, fileVars, cleanVars, gov>>

\* a compiler that cannot be started returned as an error of evolve
EvolveCompile_SpawnAborts ==
    /\ evoPc = "compile"
    /\ \E outcome \in CompileOutcomes :
          IF outcome = "spawn_failed"
          THEN /\ evoPc' = "unlock"
               /\ evoResult' = "err"
               /\ cyc' = [cyc EXCEPT !.compile = outcome, !.abortedAt = "evolve"]
          ELSE /\ cyc' = [cyc EXCEPT !.compile = outcome]
               /\ evoPc' = IF CompileAccepted(outcome) THEN "adopt" ELSE "develop"
               /\ UNCHANGED evoResult
    /\ UNCHANGED <<scenario, kern, lockHolder, netPc, fgPc, cycles,
                   netCycles, faults, coreVars, dirVars, fileVars, cleanVars, gov>>

\* Command::new("rustc")...output() and the match on its result
EvolveCompile ==
    /\ evoPc = "compile"
    /\ \E outcome \in CompileOutcomes :
          /\ cyc' = [cyc EXCEPT !.compile = outcome]
          /\ evoPc' = IF CompileAccepted(outcome) THEN "adopt" ELSE "develop"
    /\ UNCHANGED <<scenario, kern, lockHolder, netPc, fgPc, evoResult, cycles,
                   netCycles, faults, coreVars, dirVars, fileVars, cleanVars, gov>>

\* an integration applied to the primary genome instead of its argument
Integrated_OfPrimary(code) ==
    {primary_genome} \cup { Splice(primary_genome, f) : f \in knowledge_dir }

\* the results integrate_knowledge_into_code may return for `code`: the code
\* itself, or the code with the function of one knowledge file spliced in
Integrated(code) ==
    {code} \cup { Splice(code, f) : f \in knowledge_dir }

\* a synthesis that never finds the module in the map
ModuleKnown_Never(modules, name) == FALSE

\* self.module_genomes.contains_key(&module_name)
ModuleKnown(modules, name) == name \in DOMAIN modules

\* the success branch of evolve: integrate, adopt, try_create_new_module
EvolveAdopt ==
    /\ evoPc = "adopt"
    /\ \/ \* fs::read_dir or fs::read_to_string fails in integrate_knowledge_into_code
          /\ MayFail
          /\ faults' = faults + 1
          /\ Abort("integrate_knowledge")
          /\ UNCHANGED <<primary_genome, module_genomes, module_files>>
       \/ \E enhanced_genome \in Integrated(cyc.candidate) :
            /\ Len(enhanced_genome) <= MaxGenomeLines
            /\ primary_genome' = enhanced_genome
            /\ \/ \* rng.gen::<f64>() >= 0.1
                  /\ evoPc' = "develop"
                  /\ cyc' = [cyc EXCEPT !.synthesis = TRUE]
                  /\ UNCHANGED <<module_genomes, module_files, faults, evoResult>>
               \/ \E t \in ModuleTypes :
                    IF ~ModuleKnown(module_genomes, ModuleName(t))
                    THEN /\ module_genomes' = Put(module_genomes, ModuleName(t), ModuleCode(t))
                         /\ \/ /\ module_files' = Put(module_files, ModuleName(t), ModuleCode(t))
                               /\ evoPc' = "develop"
                               /\ cyc' = [cyc EXCEPT !.synthesis = TRUE,
                                                     !.module = "created",
                                                     !.moduleName = ModuleName(t)]
                               /\ UNCHANGED <<faults, evoResult>>
                            \/ /\ MayFail
                               /\ faults' = faults + 1
                               /\ evoPc' = "unlock"
                               /\ evoResult' = "err"
                               /\ cyc' = [cyc EXCEPT !.synthesis = TRUE,
                                                     !.module = "created",
                                                     !.moduleName = ModuleName(t),
                                                     !.abortedAt = "try_create_new_module"]
                               /\ UNCHANGED module_files
                    ELSE /\ evoPc' = "develop"
                         /\ cyc' = [cyc EXCEPT !.synthesis = TRUE,
                                               !.module = "present",
                                               !.moduleName = ModuleName(t)]
                         /\ UNCHANGED <<module_genomes, module_files, faults, evoResult>>
    /\ UNCHANGED <<scenario, kern, lockHolder, netPc, fgPc, cycles, netCycles,
                   generation, disk_usage, evolution_backups, mutation_strategies,
                   dirVars, backup_files, staging_file, cleanVars, gov>>

\* a cycle that goes from strategy development straight to the increment
DevelopNewStrategies_ThenIncrement ==
    /\ evoPc = "develop"
    /\ UNCHANGED mutation_strategies
    /\ evoPc' = "incr"
    /\ UNCHANGED <<scenario, kern, lockHolder, netPc, fgPc, evoResult, cycles,
                   netCycles, faults, primary_genome, module_genomes, generation,
                   disk_usage, evolution_backups, dirVars, fileVars, cleanVars,
                   cyc, gov>>

\* a cap tested after the push instead of before it
BelowCap_OffByOne(n) == n <= MaxStrategies

\* self.mutation_strategies.len() < 10
BelowCap(n) == n < MaxStrategies

\* develop_new_strategies
DevelopNewStrategies ==
    /\ evoPc = "develop"
    /\ \/ /\ OpenDevelop
          /\ BelowCap(Len(mutation_strategies))
          /\ mutation_strategies' =
                Append(mutation_strategies, StrategyName("EvolvdStrategy", generation))
       \/ UNCHANGED mutation_strategies
    /\ evoPc' = "storage"
    /\ UNCHANGED <<scenario, kern, lockHolder, netPc, fgPc, evoResult, cycles,
                   netCycles, faults, primary_genome, module_genomes, generation,
                   disk_usage, evolution_backups, dirVars, fileVars, cleanVars,
                   cyc, gov>>

(***************************************************************************)
(* manage_storage and clean_directory.                                     *)
(***************************************************************************)
Dir(d) == IF d = "cache" THEN internet_cache ELSE knowledge_dir

\* every order in which the files of a set can be listed
RECURSIVE Orderings(_)
Orderings(S) ==
    IF S = {} THEN {<<>>}
    ELSE UNION { { <<f>> \o s : s \in Orderings(S \ {f}) } : f \in S }

\* a listing left in the order read_dir gave
SortedByMtime_Unsorted(S) == Orderings(S)

\* files.sort_by(|a, b| a.1.cmp(&b.1)): oldest first; the sort is stable, so
\* files of one modification time stay in the order read_dir listed them
SortedByMtime(S) ==
    { s \in Orderings(S) : \A i, j \in 1..Len(s) : i < j => s[i].mtime <= s[j].mtime }

\* what makes calculate_disk_usage return Err: fs::read_dir(..)? or entry?
\* on either directory, or entry.metadata()? on one of their entries
MeasureErrors ==
    {"read_dir"} \cup (IF knowledge_dir \cup internet_cache = {} THEN {} ELSE {"metadata"})

\* self.calculate_disk_usage()? inside manage_storage returns Err; g is the
\* history of the pass so far
MeasureFails(g) ==
    /\ MayFail
    /\ faults' = faults + 1
    /\ Abort("manage_storage")
    /\ \E e \in MeasureErrors : gov' = [g EXCEPT !.error = e]
    /\ UNCHANGED cleanVars

\* a threshold that usage equal to it already crosses
OverHighWater_OrEqual(usage) == usage >= HighWater

\* `> MAX_STORAGE_BYTES * 8 / 10`, the test manage_storage makes twice
OverHighWater(usage) == usage > HighWater

\* manage_storage returns Ok: its locals are gone
StorageDone ==
    /\ evoPc' = "incr"
    /\ cleanDir' = "none" /\ cleanQueue' = <<>> /\ cleanCurrent' = 0
    /\ UNCHANGED <<evoResult, cyc>>

\* a loop that counts down from the usage of the directory it cleans
RunningStart_OwnUsage(d, current_usage) == SumSizes(Dir(d))

\* let mut current = current_usage: the loop counts down from the figure
\* manage_storage passed in, the usage of both directories together
RunningStart(d, current_usage) == current_usage

\* clean_directory(dir, current_usage) up to its loop: the early return, the
\* scan (a file whose metadata or modification time cannot be read is left
\* out) and the sort.  g is the history of the pass so far.
BeginClean(d, current_usage, g) ==
    IF current_usage <= TargetSize
    THEN /\ cleanDir' = d /\ cleanQueue' = <<>> /\ cleanCurrent' = current_usage
         /\ evoPc' = "clean"
         /\ gov' = g
         /\ UNCHANGED <<faults, evoResult, cyc>>
    ELSE \/ \* fs::read_dir(dir)? or entry? fails
            /\ MayFail
            /\ faults' = faults + 1
            /\ Abort("manage_storage")
            /\ gov' = [g EXCEPT !.error = "read_dir"]
            /\ UNCHANGED cleanVars
         \/ \E unreadable \in SUBSET Dir(d) :
              /\ faults + Cardinality(unreadable) <= FaultLimit
              /\ faults' = faults + Cardinality(unreadable)
              /\ \E files \in SortedByMtime(Dir(d) \ unreadable) :
                    cleanQueue' = files
              /\ cleanDir' = d
              /\ cleanCurrent' = RunningStart(d, current_usage)
              /\ evoPc' = "clean"
              /\ gov' = [g EXCEPT !.kept = @ \cup unreadable]
              /\ UNCHANGED <<evoResult, cyc>>

\* manage_storage up to the first clean_directory
ManageStorage ==
    /\ evoPc = "storage"
    /\ \/ MeasureFails(NoGov)
       \/ LET current_usage == DiskUsage
              g == [NoGov EXCEPT !.pre = current_usage,
                                 !.triggered = OverHighWater(current_usage)]
          IN IF OverHighWater(current_usage)
             THEN BeginClean("cache", current_usage, g)
             ELSE /\ StorageDone
                  /\ gov' = g
                  /\ UNCHANGED faults
    /\ UNCHANGED <<scenario, kern, lockHolder, netPc, fgPc, cycles, netCycles,
                   coreVars, dirVars, fileVars>>

\* a loop that counts a file as gone whether or not it could be deleted
Remaining_AlwaysReduced(current, file_size, deleted) ==
    SaturatingSub(current, file_size)

\* the running figure after one file: reduced only in the else arm of
\* `if let Err(e) = fs::remove_file(&path)`
Remaining(current, file_size, deleted) ==
    IF deleted THEN SaturatingSub(current, file_size) ELSE current

\* one iteration of the loop of clean_directory that does not break
CleanRemove ==
    /\ evoPc = "clean"
    /\ cleanQueue # <<>>
    /\ cleanCurrent > TargetSize
    /\ LET f == Head(cleanQueue)
       IN \/ \* fs::remove_file succeeds
             /\ internet_cache' = IF cleanDir = "cache" THEN internet_cache \ {f}
                                  ELSE internet_cache
             /\ knowledge_dir' = IF cleanDir = "knowledge" THEN knowledge_dir \ {f}
                                 ELSE knowledge_dir
             /\ cleanCurrent' = Remaining(cleanCurrent, f.size, TRUE)
             /\ gov' = [gov EXCEPT !.removed = Append(@, [dir |-> cleanDir, file |-> f])]
             /\ UNCHANGED faults
          \/ \* fs::metadata(&path) or fs::remove_file(&path) fails
             /\ MayFail
             /\ faults' = faults + 1
             /\ cleanCurrent' = Remaining(cleanCurrent, f.size, FALSE)
             /\ gov' = [gov EXCEPT !.kept = @ \cup {f}, !.failed = @ \cup {f}]
             /\ UNCHANGED dirVars
    /\ cleanQueue' = Tail(cleanQueue)
    /\ UNCHANGED <<scenario, kern, threadVars, coreVars, fileVars, cleanDir, cyc>>

\* the last calculate_disk_usage()? of manage_storage, in its println!
FinalMeasure(g) ==
    \/ /\ StorageDone
       /\ gov' = g
       /\ UNCHANGED faults
    \/ MeasureFails(g)

\* clean_directory(&self.internet_cache, ..) returns; manage_storage measures
\* again and goes on to the knowledge store if usage is still too high
CleanCacheReturn ==
    /\ evoPc = "clean"
    /\ cleanDir = "cache"
    /\ cleanQueue = <<>> \/ cleanCurrent <= TargetSize
    /\ \/ MeasureFails(gov)
       \/ LET new_usage == DiskUsage
              g == [gov EXCEPT !.mid = new_usage,
                               !.knowCleaned = OverHighWater(new_usage)]
          IN IF OverHighWater(new_usage)
             THEN BeginClean("knowledge", new_usage, g)
             ELSE FinalMeasure(g)
    /\ UNCHANGED <<scenario, kern, lockHolder, netPc, fgPc, cycles, netCycles,
                   coreVars, dirVars, fileVars>>

\* clean_directory(&self.knowledge_dir, ..) returns
CleanKnowledgeReturn ==
    /\ evoPc = "clean"
    /\ cleanDir = "knowledge"
    /\ cleanQueue = <<>> \/ cleanCurrent <= TargetSize
    /\ FinalMeasure(gov)
    /\ UNCHANGED <<scenario, kern, lockHolder, netPc, fgPc, cycles, netCycles,
                   coreVars, dirVars, fileVars>>

\* a cycle that forgets the increment
NextGeneration_Same(g) == g

\* self.generation += 1
NextGeneration(g) == g + 1

\* self.generation += 1; Ok(())
IncrementGeneration ==
    /\ evoPc = "incr"
    /\ generation' = NextGeneration(generation)
    /\ evoPc' = "unlock"
    /\ evoResult' = "ok"
    /\ UNCHANGED <<scenario, kern, lockHolder, netPc, fgPc, cycles, netCycles,
                   faults, primary_genome, module_genomes, disk_usage,
                   evolution_backups, mutation_strategies, dirVars, fileVars,
                   cleanVars, cyc, gov>>

\* a loop body that ends with the guard still alive
EvoRelease_KeepsGuard ==
    /\ evoPc = "unlock"
    /\ evoPc' = "sleep"
    /\ evoResult' = "none"
    /\ cyc' = NoCycle
    /\ gov' = NoGov
    /\ UNCHANGED <<scenario, kern, lockHolder, netPc, fgPc, cycles, netCycles,
                   faults, coreVars, dirVars, fileVars, cleanVars>>

\* the result is printed and kern_guard dropped at the end of the loop body
EvoRelease ==
    /\ evoPc = "unlock"
    /\ lockHolder' = "none"
    /\ evoPc' = "sleep"
    /\ evoResult' = "none"
    /\ cyc' = NoCycle
    /\ gov' = NoGov
    /\ UNCHANGED <<scenario, kern, netPc, fgPc, cycles, netCycles, faults,
                   coreVars, dirVars, fileVars, cleanVars>>

(***************************************************************************)
(* The learning thread (start_internet_learning_thread).                   *)
(***************************************************************************)
NetWake ==
    /\ netPc = "sleep"
    /\ Concurrent
    /\ netCycles < MaxNetCycles
    /\ netPc' = "lock"
    /\ netCycles' = IF Counted THEN netCycles + 1 ELSE netCycles
    /\ UNCHANGED <<scenario, kern, lockHolder, evoPc, fgPc, evoResult, cycles,
                   faults, coreVars, dirVars, fileVars, cleanVars, cyc, gov>>

\* a learning thread that does not look whether the core is there
NetAcquire_Unchecked ==
    /\ netPc = "lock"
    /\ LockFree
    /\ lockHolder' = "net"
    /\ netPc' = "learn"
    /\ UNCHANGED <<scenario, kern, evoPc, fgPc, evoResult, cycles, netCycles,
                   faults, coreVars, dirVars, fileVars, cleanVars, cyc, gov>>

\* kern_arc.lock().unwrap() and `if let Some(ref mut kern)`
NetAcquire ==
    /\ netPc = "lock"
    /\ LockFree
    /\ lockHolder' = "net"
    /\ netPc' = IF kern THEN "learn" ELSE "unlock"
    /\ UNCHANGED <<scenario, kern, evoPc, fgPc, evoResult, cycles, netCycles,
                   faults, coreVars, dirVars, fileVars, cleanVars, cyc, gov>>

\* a learning cycle that counts as a generation
NetLearn_CountsGeneration ==
    /\ netPc = "learn"
    /\ \E result \in {"ok", "err"}, outcome \in {"failed", "received"} :
          LearnFromInternet(result, outcome)
    /\ netPc' = "unlock"
    /\ generation' = generation + 1
    /\ UNCHANGED <<scenario, kern, lockHolder, evoPc, fgPc, evoResult, cycles,
                   netCycles, primary_genome, module_genomes, disk_usage,
                   evolution_backups, mutation_strategies, fileVars, cleanVars,
                   cyc, gov>>

\* rt.block_on(kern.learn_from_internet()); either result is only printed
NetLearn ==
    /\ netPc = "learn"
    /\ \E result \in {"ok", "err"}, outcome \in {"failed", "received"} :
          LearnFromInternet(result, outcome)
    /\ netPc' = "unlock"
    /\ UNCHANGED <<scenario, kern, lockHolder, evoPc, fgPc, evoResult, cycles,
                   netCycles, coreVars, fileVars, cleanVars, cyc, gov>>

NetRelease ==
    /\ netPc = "unlock"
    /\ lockHolder' = "none"
    /\ netPc' = "sleep"
    /\ UNCHANGED <<scenario, kern, evoPc, fgPc, evoResult, cycles, netCycles,
                   faults, coreVars, dirVars, fileVars, cleanVars, cyc, gov>>

(***************************************************************************)
(* The foreground reads of the core (generiere_autonome_nachricht,         *)
(* generiere_antwort): lock, read generation / fitness / disk_usage, drop. *)
(***************************************************************************)
FgAcquire ==
    /\ fgPc = "idle"
    /\ Concurrent
    /\ LockFree
    /\ lockHolder' = "fg"
    /\ fgPc' = "read"
    /\ UNCHANGED <<scenario, kern, evoPc, netPc, evoResult, cycles, netCycles,
                   faults, coreVars, dirVars, fileVars, cleanVars, cyc, gov>>

FgRelease ==
    /\ fgPc = "read"
    /\ lockHolder' = "none"
    /\ fgPc' = "idle"
    /\ UNCHANGED <<scenario, kern, evoPc, netPc, evoResult, cycles, netCycles,
                   faults, coreVars, dirVars, fileVars, cleanVars, cyc, gov>>

(***************************************************************************)
(* The specification.                                                      *)
(***************************************************************************)
Next ==
    \/ EvoWake \/ EvoAcquire \/ CreateBackup \/ AnalyzeEnvironment \/ EvoLearn
    \/ EvolveMutate \/ EvolveCompile \/ EvolveAdopt \/ DevelopNewStrategies
    \/ ManageStorage \/ CleanRemove \/ CleanCacheReturn \/ CleanKnowledgeReturn
    \/ IncrementGeneration \/ EvoRelease
    \/ NetWake \/ NetAcquire \/ NetLearn \/ NetRelease
    \/ FgAcquire \/ FgRelease

Spec == Init /\ [][Next]_vars

(***************************************************************************)
(* The scheduling of the three threads.  Each thread is an operating-      *)
(* system thread: a step it can take it takes (thread::sleep returns, the  *)
(* cycle body, which has no loop but the bounded one of clean_directory,   *)
(* runs on, the guard is dropped at the end of the block).  The foreground *)
(* need never read the core, but a read it began ends.  A thread waiting   *)
(* in lock() is taken to get the mutex if it is free again and again.      *)
(***************************************************************************)
EvoStep ==
    \/ EvoWake \/ CreateBackup \/ AnalyzeEnvironment \/ EvoLearn \/ EvolveMutate
    \/ DevelopNewStrategies \/ ManageStorage \/ IncrementGeneration \/ EvoRelease

NetStep == NetWake \/ NetLearn \/ NetRelease

Fairness ==
    /\ WF_vars(EvoStep) /\ SF_vars(EvoAcquire)
    /\ WF_vars(NetStep) /\ SF_vars(NetAcquire)
    /\ WF_vars(FgRelease)

SchedulingInit == Init /\ scenario = "scheduling"

\* with retrieval failing and no change drawn the cycle body never reaches
\* the compiler or clean_directory
SchedulingNext ==
    \/ EvoStep \/ EvoAcquire
    \/ NetStep \/ NetAcquire
    \/ FgAcquire \/ FgRelease

LiveSpec == SchedulingInit /\ [][SchedulingNext]_vars /\ Fairness

(***************************************************************************)
(* Properties.                                                             *)
(***************************************************************************)
\* where the evolution thread and the learning thread hold the guard
EvoHeld == {"backup", "analyze", "learn", "evolve", "compile", "adopt",
            "develop", "storage", "clean", "incr", "unlock"}
NetHeld == {"learn", "unlock"}

\* the steps of a cycle that follow evolve
AfterEvolve == {"develop", "storage", "clean", "incr", "unlock"}

\* the generation tags of the backup list, oldest first
Tags == [i \in 1..Len(evolution_backups) |-> evolution_backups[i][1]]

\* C1: an evolution cycle that returns Ok leaves generation exactly one above
\* its value at the start of the cycle, whatever the pipeline did; until the
\* increment, the last step, generation keeps its value.
C1_GenerationPlusOne ==
    /\ evoResult = "ok" => evoPc = "unlock" /\ generation = cyc.gen0 + 1
    /\ (evoPc \in EvoHeld /\ evoResult = "none") => generation = cyc.gen0

\* a cycle whose candidate compiled returned Ok
C1_Witness == evoResult = "ok" /\ cyc.compile = "ok"

\* C2: every step that changes primary_genome is the adoption step of an
\* evolution cycle in which the compiler ran on the staged candidate of
\* that cycle and returned success.
C2_GenomeReplacedOnlyAfterSuccess ==
    [][primary_genome' # primary_genome =>
          /\ evoPc = "adopt" /\ lockHolder = "evo"
          /\ cyc.staged /\ cyc.compile = "ok"
          /\ staging_file = cyc.candidate
          /\ cyc.candidate # cyc.genome0]_vars

\* the genome has been replaced
C2_Witness == primary_genome # InitialGenome

\* C3: after a compilation failure the genome is the one the cycle started
\* with, evolve has returned Ok (the cycle is at strategy development or
\* beyond), and the cycle ends with the generation incremented unless
\* governance itself returned an I/O error.
C3_CompileFailureKeepsGenome ==
    cyc.compile = "failed" =>
        /\ primary_genome = cyc.genome0
        /\ evoPc \in AfterEvolve
        /\ cyc.abortedAt \in {"none", "manage_storage"}
        /\ evoPc = "unlock" =>
              \/ evoResult = "ok" /\ generation = cyc.gen0 + 1
              \/ evoResult = "err" /\ cyc.abortedAt = "manage_storage"

\* a cycle whose candidate was rejected returned Ok
C3_Witness == cyc.compile = "failed" /\ evoResult = "ok"

\* C4: when the mutation returns the primary genome itself, the genome and
\* the staging file stay as they were at the start of the cycle, the
\* compiler is not invoked and evolve returns Ok.
C4_NoChangeNoCompile ==
    (cyc.candidate # NoText /\ cyc.candidate = cyc.genome0) =>
        /\ primary_genome = cyc.genome0
        /\ staging_file = cyc.staging0
        /\ ~cyc.staged
        /\ cyc.compile = "none"
        /\ evoPc \in AfterEvolve
        /\ cyc.abortedAt \in {"none", "manage_storage"}

\* a no-change cycle returned Ok and left an earlier staging file alone
C4_Witness ==
    /\ cyc.candidate # NoText /\ cyc.candidate = cyc.genome0
    /\ evoResult = "ok"
    /\ staging_file # NoText

\* C5: a thread is inside its cycle body exactly while it holds the guard,
\* so the two cycle bodies never overlap and no step of one falls between
\* two steps of the other.
C5_MutualExclusion ==
    /\ (evoPc \in EvoHeld) <=> (lockHolder = "evo")
    /\ (netPc \in NetHeld) <=> (lockHolder = "net")
    /\ (fgPc = "read") <=> (lockHolder = "fg")
    /\ ~(evoPc \in EvoHeld /\ netPc \in NetHeld)

\* the learning thread waits for the guard while the evolution cycle is at
\* its mutation step
C5_Witness == lockHolder = "evo" /\ evoPc = "evolve" /\ netPc = "lock"

\* C6: the backup list never holds more than 10 entries, and a backup made
\* on a full list drops the oldest entry: the first nine entries afterwards
\* are the former entries 2 to 10.
C6_BackupsAtMostTen ==
    /\ Len(evolution_backups) <= 10
    /\ (evoPc \in (EvoHeld \ {"backup"}) /\ evoResult # "skipped"
        /\ Len(cyc.backups0) = 10) =>
            /\ Len(evolution_backups) = 10
            /\ SubSeq(evolution_backups, 1, 9) = Tail(cyc.backups0)

\* a backup was made on a full list
C6_Witness ==
    /\ evoPc = "analyze"
    /\ Len(cyc.backups0) = 10

\* C7 as stated: after 15 evolution cycles the tags are 5..14.
C7_Original ==
    (cycles = 15 /\ evoPc = "sleep") => Tags = [i \in 1..10 |-> i + 4]

\* C7, amended: after 15 evolution cycles that all returned Ok the backup
\* list holds the tags 5, 6, ..., 14, oldest first.
C7_TenMostRecent ==
    (cycles = 15 /\ generation = 15) => Tags = [i \in 1..10 |-> i + 4]

\* fifteen cycles have run and all returned Ok
C7_Witness == cycles = 15 /\ generation = 15 /\ evoPc = "sleep"

\* what the backup list must be once the backup of the cycle is made
ExpectedBackups ==
    (IF Len(cyc.backups0) >= 10 THEN Tail(cyc.backups0) ELSE cyc.backups0)
    \o << <<cyc.gen0, cyc.genome0>> >>

\* C8: a cycle appends one entry, the pair (generation, primary genome) of
\* the start of the cycle, before any mutation is drawn, and no later step
\* of the cycle touches the list.
C8_OneBackupBeforeMutation ==
    /\ evoPc = "backup" => evolution_backups = cyc.backups0 /\ cyc.candidate = NoText
    /\ (evoPc \in (EvoHeld \ {"backup"}) /\ evoResult # "skipped") =>
            evolution_backups = ExpectedBackups
    /\ cyc.candidate # NoText => evoPc \notin {"backup", "analyze", "learn"}

\* a second cycle has mutated the genome after making its backup
C8_Witness == evoPc = "compile" /\ Len(evolution_backups) = 2

\* C9 as stated: after a triggered pass each directory uses at most 50% of
\* capacity or is empty.
C9_Original ==
    (evoPc = "incr" /\ gov.triggered) =>
        \A d \in {"cache", "knowledge"} :
            SumSizes(Dir(d)) <= MAX_STORAGE_BYTES \div 2 \/ Dir(d) = {}

\* C9, amended: after a triggered pass that returned Ok the aggregate usage
\* is at most 50% of capacity, or the retrieval cache holds only files that
\* could not be read or deleted during the pass and either the aggregate
\* usage is at most 80% of capacity or the same holds of the knowledge store.
C9_GovernedUsage ==
    (evoPc = "incr" /\ gov.triggered) =>
        \/ DiskUsage <= MAX_STORAGE_BYTES \div 2
        \/ /\ internet_cache \subseteq gov.kept
           /\ \/ DiskUsage <= (MAX_STORAGE_BYTES * 8) \div 10
              \/ knowledge_dir \subseteq gov.kept

\* a pass emptied the cache and returned with the knowledge store untouched
\* above 50% of capacity
C9_Witness ==
    /\ evoPc = "incr" /\ gov.triggered
    /\ Len(gov.removed) > 0 /\ gov.kept = {}
    /\ internet_cache = {}
    /\ SumSizes(knowledge_dir) > MAX_STORAGE_BYTES \div 2

\* no file that stays is older than a file that goes, but for the files in
\* `excused`
OldestFirst(before, after, excused) ==
    \A f \in before \ after : \A g \in after \ excused : g.mtime >= f.mtime

\* C10 as stated: when a file is removed no strictly older file of its
\* directory still exists.
C10_Original ==
    [][evoPc = "clean" =>
          /\ OldestFirst(internet_cache, internet_cache', {})
          /\ OldestFirst(knowledge_dir, knowledge_dir', {})]_vars

\* C10, amended: when a file is removed, every strictly older file of its
\* directory that still exists is one whose metadata could not be read or
\* whose deletion failed earlier in the pass.
C10_OldestFirst ==
    [][evoPc = "clean" =>
          /\ OldestFirst(internet_cache, internet_cache', gov.kept)
          /\ OldestFirst(knowledge_dir, knowledge_dir', gov.kept)]_vars

\* of three cached files of different ages the two oldest went, the older
\* one first, and the newest stayed
C10_Witness ==
    /\ evoPc = "incr"
    /\ gov.kept = {}
    /\ Len(gov.removed) = 2
    /\ gov.removed[1].dir = "cache" /\ gov.removed[2].dir = "cache"
    /\ gov.removed[1].file.mtime < gov.removed[2].file.mtime
    /\ Cardinality(internet_cache) = 1
    /\ \A g \in internet_cache : g.mtime > gov.removed[2].file.mtime

\* the files a governance pass has removed from directory d so far
RemovedFrom(d) ==
    { gov.removed[i].file : i \in { j \in 1..Len(gov.removed) : gov.removed[j].dir = d } }

\* C11: in a governance pass every removal from the retrieval cache comes
\* before every removal from the knowledge store, and a knowledge-store file
\* is removed only if the aggregate usage measured after the cache eviction
\* (what is in use now plus what the knowledge store has lost since) was
\* above 80% of capacity.
C11_CacheFirst ==
    \A i \in 1..Len(gov.removed) :
        gov.removed[i].dir = "knowledge" =>
            /\ \A j \in i..Len(gov.removed) : gov.removed[j].dir = "knowledge"
            /\ gov.knowCleaned
            /\ DiskUsage + SumSizes(RemovedFrom("knowledge")) > (MAX_STORAGE_BYTES * 8) \div 10

\* a pass removed a cached file and then a knowledge file
C11_Witness ==
    /\ evoPc = "incr"
    /\ Len(gov.removed) = 2
    /\ gov.removed[1].dir = "cache"
    /\ gov.removed[2].dir = "knowledge"

\* C12: when governance triggers with an empty retrieval cache, every file
\* is readable and every deletion succeeds, the pass returns with the
\* aggregate usage at most 50% of capacity, the files removed are knowledge
\* files taken oldest first, no file that stays is older than one that went,
\* and before the last removal the usage was still above 50% of capacity.
C12_ShortestOldestPrefix ==
    (/\ evoPc = "incr" /\ gov.triggered
     /\ gov.kept = {}
     /\ internet_cache = {} /\ RemovedFrom("cache") = {}) =>
        /\ DiskUsage <= MAX_STORAGE_BYTES \div 2
        /\ Len(gov.removed) >= 1
        /\ \A i, j \in 1..Len(gov.removed) :
              i < j => gov.removed[i].file.mtime <= gov.removed[j].file.mtime
        /\ \A f \in RemovedFrom("knowledge") : \A g \in knowledge_dir : f.mtime <= g.mtime
        /\ DiskUsage + gov.removed[Len(gov.removed)].file.size > MAX_STORAGE_BYTES \div 2

\* of three knowledge files the two oldest had to go and the newest stayed
C12_Witness ==
    /\ evoPc = "incr" /\ gov.triggered
    /\ gov.kept = {}
    /\ internet_cache = {} /\ RemovedFrom("cache") = {}
    /\ Len(gov.removed) = 2
    /\ gov.removed[1].file.mtime < gov.removed[2].file.mtime
    /\ Cardinality(knowledge_dir) = 1

\* s is an initial part of t
IsPrefix(s, t) == Len(s) <= Len(t) /\ SubSeq(t, 1, Len(s)) = s

\* C13: the strategy registry always holds between 2 and 10 strategies; no
\* step removes or reorders a strategy (the registry before a step is an
\* initial part of the registry after it); within one evolution cycle at
\* most one strategy is appended, and none when the cycle found 10.
C13_RegistryAppendOnly ==
    /\ [](/\ Len(mutation_strategies) \in 2..10
          /\ (evoPc \in EvoHeld /\ evoResult # "skipped") =>
                /\ Len(mutation_strategies) <= Len(cyc.strategies0) + 1
                /\ Len(cyc.strategies0) = 10 => mutation_strategies = cyc.strategies0)
    /\ [][/\ IsPrefix(mutation_strategies, mutation_strategies')
          /\ mutation_strategies' # mutation_strategies => evoPc = "develop"]_vars

\* strategy development has run on a full registry
C13_Witness ==
    /\ evoPc = "storage"
    /\ Len(cyc.strategies0) = 10
    /\ Len(mutation_strategies) = 10

\* C14: a synthesis that selects a name already in the module map leaves
\* the map and the module files as the cycle found them, and a module is
\* stored or written only under a name the map did not hold; every entry
\* of the map is the template of its own name, and there are at most four.
C14_SynthesisIdempotent ==
    /\ Cardinality(DOMAIN module_genomes) <= 4
    /\ \A name \in DOMAIN module_genomes :
          \E t \in ModuleTypes : name = ModuleName(t) /\ module_genomes[name] = ModuleCode(t)
    /\ cyc.module = "present" =>
          /\ cyc.moduleName \in DOMAIN cyc.modules0
          /\ module_genomes = cyc.modules0
          /\ module_files = cyc.mfiles0
    /\ cyc.module = "created" =>
          /\ cyc.moduleName \notin DOMAIN cyc.modules0
          /\ DOMAIN module_genomes = DOMAIN cyc.modules0 \cup {cyc.moduleName}

\* a later cycle selected the name of a module an earlier cycle stored
C14_Witness ==
    /\ cyc.module = "present"
    /\ evoPc = "develop"
    /\ Cardinality(DOMAIN module_genomes) = 1

\* the step that may follow each step of run_evolution_cycle when it
\* returns Ok; compile and adopt are the inner steps of the pipeline, clean
\* the inner step of governance
StepOrder ==
    { <<"backup", "analyze">>, <<"analyze", "learn">>, <<"learn", "evolve">>,
      <<"evolve", "compile">>, <<"evolve", "develop">>,
      <<"compile", "adopt">>, <<"compile", "develop">>, <<"adopt", "develop">>,
      <<"develop", "storage">>, <<"storage", "clean">>, <<"storage", "incr">>,
      <<"clean", "incr">>, <<"incr", "unlock">> }

\* C15: inside a cycle the evolution thread moves from one step to the
\* next in the order backup, environment snapshot, retrieval, pipeline,
\* strategy development, governance, generation increment, release, or
\* leaves the cycle with the error of the step it is in; each part of the
\* state is written by its own step only; after the increment nothing
\* happens in the cycle but the release of the lock.
C15_FixedStepOrder ==
    [][/\ (evoPc \in EvoHeld /\ evoPc' # evoPc) =>
             \/ <<evoPc, evoPc'>> \in StepOrder /\ evoResult' # "err"
             \/ evoPc # "unlock" /\ evoPc' = "unlock" /\ evoResult' = "err"
             \/ evoPc = "unlock" /\ evoPc' = "sleep" /\ lockHolder' = "none"
       /\ evolution_backups' # evolution_backups => evoPc = "backup"
       /\ backup_files' # backup_files => evoPc = "backup"
       /\ disk_usage' # disk_usage => evoPc = "analyze"
       /\ (lockHolder = "evo" /\ <<knowledge_dir', internet_cache'>> # <<knowledge_dir, internet_cache>>)
             => evoPc \in {"learn", "clean"}
       /\ staging_file' # staging_file => evoPc = "evolve"
       /\ <<primary_genome', module_genomes', module_files'>>
             # <<primary_genome, module_genomes, module_files>> => evoPc = "adopt"
       /\ mutation_strategies' # mutation_strategies => evoPc = "develop"
       /\ generation' # generation => evoPc = "incr" /\ evoPc' = "unlock"
       /\ evoPc = "unlock" =>
             UNCHANGED <<coreVars, dirVars, fileVars>>]_vars

\* a cycle went through every step, the inner ones included, and returned Ok
C15_Witness ==
    /\ evoResult = "ok"
    /\ cyc.retrieval = "failed"
    /\ cyc.compile = "ok"
    /\ cyc.synthesis
    /\ generation = cyc.gen0 + 1

\* C16: while the core is absent a firing of either timer takes the lock
\* and goes straight to its release: no step of a cycle body is entered, no
\* error is reported, and the core fields, the directories and the files
\* are as they were at start-up.
C16_AbsentCoreSkips ==
    ~kern =>
        /\ evoPc \in {"sleep", "lock", "unlock"}
        /\ netPc \in {"sleep", "lock", "unlock"}
        /\ evoResult \in {"none", "skipped"}
        /\ evoPc = "unlock" => lockHolder = "evo" /\ evoResult = "skipped" /\ ENABLED EvoRelease
        /\ netPc = "unlock" => lockHolder = "net" /\ ENABLED NetRelease
        /\ faults = 0
        /\ primary_genome = InitialGenome /\ generation = 0 /\ disk_usage = 0
        /\ module_genomes = EmptyMap /\ evolution_backups = <<>>
        /\ Len(mutation_strategies) = 2
        /\ knowledge_dir = {} /\ internet_cache = {}
        /\ backup_files = EmptyMap /\ staging_file = NoText /\ module_files = EmptyMap
        /\ cyc = NoCycle /\ gov = NoGov

\* with the core absent the learning timer has fired and released the lock,
\* and the evolution timer has fired and holds it
C16_Witness ==
    /\ ~kern
    /\ netCycles = 1 /\ netPc = "sleep"
    /\ evoPc = "unlock" /\ lockHolder = "evo"

\* every file of directory `before` is still there, by name, in `after`
NothingDeleted(before, after) == \A f \in before : \E g \in after : g.name = f.name

\* C17: while the learning thread holds the lock no step changes the
\* generation, the primary genome, the module map, the backup list or the
\* strategy registry; none writes a backup, staging or module file, none
\* runs the compiler or governance, and no file of the two managed
\* directories is deleted.
C17_LearningCycleFrame ==
    [][lockHolder = "net" =>
          /\ UNCHANGED <<generation, primary_genome, module_genomes,
                         evolution_backups, mutation_strategies>>
          /\ UNCHANGED <<backup_files, staging_file, module_files>>
          /\ UNCHANGED <<cleanDir, cleanQueue, cleanCurrent, cyc, gov>>
          /\ evoPc \in {"sleep", "lock"} /\ evoPc' \in {"sleep", "lock"}
          /\ NothingDeleted(internet_cache, internet_cache')
          /\ NothingDeleted(knowledge_dir, knowledge_dir')]_vars

\* after an evolution cycle a learning cycle has stored a knowledge file
C17_Witness ==
    /\ lockHolder = "net" /\ netPc = "unlock"
    /\ knowledge_dir # {}
    /\ generation = 1 /\ Len(evolution_backups) = 1

\* C18: when create_backup returns the error of its file write, the cycle
\* is over: the error is with the thread, which still holds the lock and
\* can release it; the generation, the genome, the usage figure, the
\* staging file and the registry are as the cycle found them, and no
\* retrieval, mutation, compilation, synthesis or governance has run.
C18_BackupFailureAborts ==
    cyc.abortedAt = "create_backup" =>
        /\ evoPc = "unlock" /\ evoResult = "err"
        /\ lockHolder = "evo" /\ ENABLED EvoRelease
        /\ generation = cyc.gen0
        /\ primary_genome = cyc.genome0
        /\ disk_usage = cyc.usage0
        /\ staging_file = cyc.staging0
        /\ mutation_strategies = cyc.strategies0
        /\ cyc.retrieval = "none"
        /\ cyc.candidate = NoText /\ ~cyc.staged /\ cyc.compile = "none"
        /\ ~cyc.synthesis
        /\ gov = NoGov

\* the backup write of a second cycle failed
C18_Witness ==
    /\ cyc.abortedAt = "create_backup"
    /\ cycles = 2
    /\ generation = 1

\* C19: in every evolution cycle whose pipeline has returned Ok (the cycle
\* is at strategy development or beyond) try_create_new_module has been
\* called, whatever the outcome of the pipeline was.
C19_SynthesisAlwaysAttempted ==
    (evoPc \in {"develop", "storage", "clean", "incr"} \/ evoResult = "ok") =>
        cyc.synthesis

\* code without its line i
RemoveAt(code, i) == SubSeq(code, 1, i - 1) \o SubSeq(code, i + 1, Len(code))

\* genome is candidate, or candidate with one learned function inserted
IntegrationOf(candidate, genome) ==
    \/ genome = candidate
    \/ \E i \in 1..Len(genome) :
          genome[i].kind = "learned" /\ RemoveAt(genome, i) = candidate

C21_SpawnFailureKeepsGenome ==
    cyc.compile = "spawn_failed" =>
        /\ primary_genome = cyc.genome0
        /\ module_genomes = cyc.modules0
        /\ evoPc \in AfterEvolve
        /\ cyc.abortedAt \in {"none", "manage_storage"}
        /\ evoPc = "unlock" =>
              \/ evoResult = "ok" /\ generation = cyc.gen0 + 1
              \/ evoResult = "err" /\ cyc.abortedAt = "manage_storage"

\* a cycle whose compiler could not be started returned Ok
C21_Witness == cyc.compile = "spawn_failed" /\ evoResult = "ok"

\* C22: after a failed retrieval in an evolution cycle the retrieval step
\* has returned Ok (the cycle is at the pipeline or beyond and was not
\* aborted by the retrieval step), no file has been added to the cache or
\* the knowledge store since the cycle began, and the cycle ends with the
\* generation incremented unless a later step returned its own error.
C22_RetrievalFailureTolerated ==
    cyc.retrieval = "failed" =>
        /\ internet_cache \subseteq cyc.cache0
        /\ knowledge_dir \subseteq cyc.knowledge0
        /\ evoPc \in {"evolve", "compile", "adopt"} =>
              internet_cache = cyc.cache0 /\ knowledge_dir = cyc.knowledge0
        /\ evoPc \in {"evolve", "compile", "adopt"} \cup AfterEvolve
        /\ cyc.abortedAt # "learn_from_internet"
        /\ evoPc = "unlock" =>
              \/ evoResult = "ok" /\ generation = cyc.gen0 + 1
              \/ evoResult = "err" /\ cyc.abortedAt # "none"

\* a cycle whose retrieval failed went through the compiler and returned Ok
C22_Witness ==
    /\ cyc.retrieval = "failed"
    /\ cyc.compile # "none"
    /\ evoResult = "ok"

\* C23: whatever the interleaving of the three threads, a step that changes
\* generation adds exactly 1 and is the last step of an evolution cycle
\* that returns Ok, taken while the evolution thread holds the lock; a
\* cycle that returned an error has left generation as it found it.
C23_GenerationMonotone ==
    /\ [](evoResult = "err" => generation = cyc.gen0)
    /\ [][generation' # generation =>
             /\ generation' = generation + 1
             /\ lockHolder = "evo" /\ evoPc = "incr"
             /\ evoPc' = "unlock" /\ evoResult' = "ok"
             /\ cyc.abortedAt = "none"]_vars

\* with all three threads running, one evolution cycle has completed, one
\* has aborted and a learning cycle has run
C23_Witness ==
    /\ Concurrent /\ kern
    /\ cycles = 2 /\ evoPc = "sleep"
    /\ generation = 1
    /\ netCycles = 1 /\ netPc = "sleep"

\* C24: during a governance pass a file whose metadata cannot be read is
\* skipped and the pass still completes: whenever entry.metadata() failed
\* inside the pass, manage_storage returns Ok and the cycle is not aborted.
\* Refuted: calculate_disk_usage hands the error on with `?`.
C24_UnreadableMetadataSkipped ==
    gov.error = "metadata" =>
        /\ cyc.abortedAt # "manage_storage"
        /\ evoResult # "err"

\* the usage clean_directory was called with for the directory in hand
CleanStart == IF cleanDir = "cache" THEN gov.pre ELSE gov.mid

\* C25: a file that could not be deleted during clean_directory does not end
\* the pass: the file stays, the running figure is the starting usage less
\* the files actually deleted, the loop has gone on to files that are not
\* older, and clean_directory returns Ok (manage_storage fails only on an
\* error of its own measurement or directory listing).
C25_DeleteFailureTolerated ==
    gov.failed # {} =>
        /\ gov.failed \subseteq internet_cache \cup knowledge_dir
        /\ evoPc = "clean" =>
              /\ cleanCurrent = CleanStart - SumSizes(RemovedFrom(cleanDir))
              /\ \A i \in 1..Len(cleanQueue) :
                    /\ cleanQueue[i] \notin gov.failed
                    /\ \A f \in gov.failed \cap Dir(cleanDir) :
                          f.mtime <= cleanQueue[i].mtime
        /\ gov.error = "none" =>
              /\ evoPc \in {"clean", "incr", "unlock"}
              /\ evoResult # "err"
              /\ cyc.abortedAt = "none"

\* the oldest cached file could not be deleted, a newer one was, and the
\* pass has returned Ok
C25_Witness ==
    /\ evoPc = "incr"
    /\ \E f \in gov.failed \cap internet_cache :
          /\ Len(gov.removed) >= 1
          /\ gov.removed[1].dir = "cache"
          /\ gov.removed[1].file.mtime > f.mtime

\* the files removed from directory d by removals from..to of the pass
RemovedBetween(d, from, to) ==
    { gov.removed[j].file :
        j \in { k \in from..to : k <= Len(gov.removed) /\ gov.removed[k].dir = d } }

\* the usage clean_directory was called with for directory d
StartOf(d) == IF d = "cache" THEN gov.pre ELSE gov.mid

C27_BelowHighWaterNoEffect ==
    [][(/\ evoPc = "storage"
        /\ DiskUsage <= (MAX_STORAGE_BYTES * 8) \div 10
        /\ evoPc' # "storage") =>
           /\ UNCHANGED <<coreVars, dirVars, fileVars>>
           /\ \/ /\ evoPc' = "incr"
                 /\ ~gov'.triggered /\ gov'.removed = <<>>
                 /\ gov'.pre = DiskUsage
                 /\ cleanQueue' = <<>>
              \/ /\ evoPc' = "unlock" /\ evoResult' = "err"
                 /\ gov'.error # "none"]_vars

\* a pass that found usage exactly at the threshold has returned without
\* cleaning
C27_Witness ==
    /\ evoPc = "incr"
    /\ gov.pre = (MAX_STORAGE_BYTES * 8) \div 10
    /\ DiskUsage = gov.pre
    /\ ~gov.triggered /\ gov.removed = <<>>
    /\ internet_cache # {} /\ knowledge_dir # {}

\* in the "scheduling" environment the steps left out of SchedulingNext are
\* never enabled
SchedulingNextIsNext ==
    scenario = "scheduling" => evoPc \notin {"compile", "adopt", "clean"}

Draws(code) ==
    [low : BOOLEAN, target : 1..Len(code), arm : 0..4, stamp : 1..CycleLimit]

\* C29: every registered strategy is a pure function of its input text: the
\* candidate a cycle obtained from the strategy it chose is what that
\* strategy returns for the same text on any other invocation, whatever the
\* generator and the clock give.  Refuted by BasicMutationStrategy.
C29_StrategiesArePure ==
    cyc.candidate # NoText =>
        \E i \in 1..Len(mutation_strategies) :
            \A d \in Draws(cyc.genome0) :
                Mutate(mutation_strategies[i], cyc.genome0,
                       d.low, d.target, d.arm, d.stamp) = cyc.candidate

\* C30: a synthesized module is stored both in memory and on disk: every
\* name of the module map has a module file of that name holding the same
\* body.  Refuted: the map entry is made before the file is written, and
\* stays when the write fails.
C30_ModuleInMapAndOnDisk ==
    \A name \in DOMAIN module_genomes :
        /\ name \in DOMAIN module_files
        /\ module_files[name] = module_genomes[name]

\* C31 (as stated): the generation tags of the backup list are strictly
\* increasing from oldest to newest, also after cycles that aborted.
C31_Original ==
    \A i \in 1..(Len(evolution_backups) - 1) : Tags[i] < Tags[i + 1]

\* C31, amended: the tags never decrease and never skip a generation: each
\* entry carries the tag of the entry before it (the cycle that made that
\* entry aborted) or that tag plus one; the newest tag is the generation the
\* newest cycle started with; and as long as no operation has failed, so that
\* no cycle has aborted, the tags are strictly increasing.
C31_TagsNeverDecrease ==
    /\ \A i \in 1..(Len(evolution_backups) - 1) :
          Tags[i + 1] \in {Tags[i], Tags[i] + 1}
    /\ evolution_backups # <<>> =>
          /\ Tags[Len(evolution_backups)] <= generation
          /\ Tags[Len(evolution_backups)] >= generation - 1
    /\ faults = 0 => C31_Original

\* two neighbouring entries carry the same generation and different
\* snapshots: a cycle adopted a candidate and aborted afterwards
C31_Witness ==
    \E i \in 1..(Len(evolution_backups) - 1) :
        /\ Tags[i] = Tags[i + 1]
        /\ evolution_backups[i][2] # evolution_backups[i + 1][2]

\* C32 (as stated): when create_backup fails with an I/O error the backup
\* list is the same as before the call.
C32_Original ==
    cyc.abortedAt = "create_backup" => evolution_backups = cyc.backups0

\* C32, amended: when create_backup fails with an I/O error the list has
\* already changed: the entry of the cycle is appended, and the oldest entry
\* is gone if the list was full.
C32_FailedBackupStaysInList ==
    cyc.abortedAt = "create_backup" =>
        /\ evolution_backups = ExpectedBackups
        /\ evolution_backups # cyc.backups0
        /\ evolution_backups[Len(evolution_backups)] = <<generation, primary_genome>>
        /\ Len(cyc.backups0) = 10 => evolution_backups[1] = cyc.backups0[2]
        /\ Len(cyc.backups0) < 10 => Len(evolution_backups) = Len(cyc.backups0) + 1

\* the file write failed on a full list: the new entry is in, the oldest out,
\* and there is no backup file of the generation
C32_Witness ==
    /\ cyc.abortedAt = "create_backup"
    /\ Len(cyc.backups0) = 10
    /\ Tags[1] = cyc.backups0[1][1] + 1
    /\ generation \notin DOMAIN backup_files

\* the snapshot of the newest backup entry is the primary genome
NewestBackupIsPrimary ==
    /\ evolution_backups # <<>>
    /\ evolution_backups[Len(evolution_backups)][2] = primary_genome

\* C33: from the backup of a cycle until its candidate is adopted, so when
\* the pipeline starts, the newest backup snapshot is the primary genome;
\* and once the two are equal they stay equal through every step of either
\* thread and of the foreground, a learning cycle included, except through
\* the adoption of a candidate the compiler accepted.
C33_NewestBackupIsPrimary ==
    /\ []((evoPc \in {"analyze", "learn", "evolve", "compile", "adopt"}) =>
            NewestBackupIsPrimary)
    /\ []((evoPc \in AfterEvolve /\ evoResult # "skipped" /\ cyc.compile # "ok") =>
            NewestBackupIsPrimary)
    /\ [][(NewestBackupIsPrimary /\ ~NewestBackupIsPrimary') =>
             (evoPc = "adopt" /\ cyc.compile = "ok")]_vars

\* the pipeline of a second evolution cycle starts, after a first cycle
\* that changed nothing and a learning cycle that stored what it retrieved
C33_Witness ==
    /\ Concurrent /\ kern
    /\ cycles = 2 /\ evoPc = "evolve"
    /\ netCycles = 1 /\ netPc = "sleep" /\ internet_cache # {}
    /\ Len(evolution_backups) = 2
    /\ NewestBackupIsPrimary

\* C34 (as stated): the names of the registered strategies are pairwise
\* distinct in every reachable state.
C34_Original ==
    \A i, j \in 1..Len(mutation_strategies) :
        i # j => mutation_strategies[i] # mutation_strategies[j]

\* C34, amended: the two built-in names are unique; two developed
\* strategies can carry one name, that of a generation not above the current
\* one, and only after an operation has failed: a cycle that developed a
\* strategy aborted afterwards, in governance, without incrementing the
\* generation the name is made from.  While no operation has failed the
\* names are pairwise distinct.
C34_NamesDistinctUnlessAborted ==
    /\ \A i, j \in 1..Len(mutation_strategies) :
          (i < j /\ mutation_strategies[i] = mutation_strategies[j]) =>
              /\ mutation_strategies[i].kind = "EvolvdStrategy"
              /\ mutation_strategies[i].n <= generation
              /\ faults > 0
    /\ \A i \in 3..Len(mutation_strategies) :
          /\ mutation_strategies[i].kind = "EvolvdStrategy"
          /\ mutation_strategies[i].n <= generation
    /\ faults = 0 => C34_Original

\* develop_new_strategies has just added a second strategy named after the
\* current generation
C34_Witness ==
    /\ evoPc = "storage"
    /\ \E i, j \in 1..Len(mutation_strategies) :
          /\ i < j
          /\ mutation_strategies[i] = mutation_strategies[j]
          /\ mutation_strategies[i].n = generation

\* a background thread that is in thread::sleep or waits in lock()
EvoWaiting == evoPc \in {"sleep", "lock"}
NetWaiting == netPc \in {"sleep", "lock"}

\* C35: neither background thread holds the core lock while it waits for its
\* interval: through the sleep and up to the return of lock() the guard is
\* not its own, so the lock is taken only after the wait and given back
\* before the next one.  A thread that sleeps therefore blocks nobody: with
\* one thread asleep and the lock not held by a third party, the other
\* thread's lock() and the foreground's lock() can return.
C35_NoLockWhileWaiting ==
    /\ EvoWaiting => lockHolder # "evo"
    /\ NetWaiting => lockHolder # "net"
    /\ (evoPc = "sleep" /\ netPc = "lock" /\ fgPc = "idle") => ENABLED NetAcquire
    /\ (netPc = "sleep" /\ evoPc = "lock" /\ fgPc = "idle") => ENABLED EvoAcquire
    /\ (Concurrent /\ evoPc = "sleep" /\ netPc = "sleep" /\ fgPc = "idle")
          => ENABLED FgAcquire
    /\ (Concurrent /\ fgPc = "idle" /\ EvoWaiting /\ NetWaiting)
          => lockHolder = "none"

\* the evolution thread sleeps again after a whole cycle while the learning
\* thread, which got the lock meanwhile, runs its body
C35_Witness ==
    /\ kern
    /\ evoPc = "sleep" /\ cycles >= 1 /\ generation >= 1
    /\ lockHolder = "net" /\ netPc = "learn"

\* C36: the foreground reads generation, fitness and disk usage only with the
\* guard of the core lock in hand: while it reads, neither background thread
\* is inside its loop body and no cycle is half done, and while a background
\* body holds the lock the foreground's lock() cannot return.
C36_ForegroundReadsUnderLock ==
    /\ fgPc = "read" =>
          /\ lockHolder = "fg"
          /\ evoPc \notin EvoHeld
          /\ netPc \notin NetHeld
          /\ cyc = NoCycle
          /\ gov = NoGov
    /\ lockHolder \in {"evo", "net"} =>
          /\ fgPc = "idle"
          /\ ~ENABLED FgAcquire
    /\ (Concurrent /\ fgPc = "idle" /\ lockHolder = "none") => ENABLED FgAcquire

\* the foreground reads a core that has been through a cycle while both
\* background threads wait in lock()
C36_Witness ==
    /\ kern
    /\ fgPc = "read" /\ lockHolder = "fg"
    /\ generation >= 1
    /\ evoPc = "lock" /\ netPc = "lock"

============================================================================
